---- MODULE Spec2Model ----
(***************************************************************************)
(* Model of the doodle backend: the per-client rate limiter                *)
(* (check_rate_limit), the /api/generate-doodle handler served by an       *)
(* asyncio event loop, and GeminiService.generate_doodle with its          *)
(* normalisation of the upstream response.                                 *)
(***************************************************************************)
EXTENDS Integers, Sequences, FiniteSets, TLC

(***************************************************************************)
(* Configuration (Settings) and the bounds of the model.                   *)
(***************************************************************************)

\* Settings.rate_limit_requests (default 10), scaled down.
rate_limit_requests == 2

\* Settings.rate_limit_period in seconds (default 3600), scaled down.
rate_limit_period == 2

\* The clock runs from 0 to MaxTime: past one whole window.
MaxTime == rate_limit_period + 1

\* At most MaxCalls check_rate_limit calls are started in a behaviour.
MaxCalls == 4

\* Client addresses (request.client.host).
Clients == {"10.0.0.1", "10.0.0.2"}

\* Requests served at the same time (coroutines of the handler).
Slots == {1, 2}

NoSlot == 0

VARIABLES
    now,                 \* time.time(), in seconds
    rate_limit_storage,  \* main.py: client_ip -> list of timestamps
    loop,                \* the slot whose coroutine runs on the event loop
    req,                 \* per slot: the handler's position and locals
    calls                \* history: per client, its finished check_rate_limit calls

vars == <<now, rate_limit_storage, loop, req, calls>>

(***************************************************************************)
(* Sequences.                                                              *)
(***************************************************************************)

\* Variant: the window is one second short.
WithinWindowShort(current_time, timestamp) ==
    current_time - timestamp < rate_limit_period - 1

\* Variant: a timestamp exactly one period old is kept.
WithinWindowInclusive(current_time, timestamp) ==
    current_time - timestamp <= rate_limit_period

\* Line 65: current_time - timestamp < settings.rate_limit_period
WithinWindow(current_time, timestamp) ==
    current_time - timestamp < rate_limit_period

\* Lines 63-66: the timestamps of s still inside the window at current_time.
RECURSIVE SelectTimes(_, _)
SelectTimes(s, current_time) ==
    IF s = <<>> THEN <<>>
    ELSE IF WithinWindow(current_time, Head(s))
         THEN <<Head(s)>> \o SelectTimes(Tail(s), current_time)
         ELSE SelectTimes(Tail(s), current_time)

\* Variant: the limit is compared with > instead of >=.
LimitExceeded(s) == Len(s) > rate_limit_requests

\* Line 68: len(rate_limit_storage[client_ip]) >= settings.rate_limit_requests
LimitReached(s) == Len(s) >= rate_limit_requests

Range(s) == {s[i] : i \in DOMAIN s}

(***************************************************************************)
(* Python strings, as sequences of characters.                             *)
(***************************************************************************)

\* The longest tail of a modelled string, after its prefix.
MaxTail == 4

\* The characters a tail is made of: a base64 character and the comma.
TailChars == {"A", ","}

\* "data:image"
DataPrefix == <<"d", "a", "t", "a", ":", "i", "m", "a", "g", "e">>

\* "http"
HttpPrefix == <<"h", "t", "t", "p">>

\* "image"
ImageWord == <<"i", "m", "a", "g", "e">>

\* "text"
TextWord == <<"t", "e", "x", "t">>

\* The characters of the model that belong to the base64 alphabet.
Base64Alphabet == {"d", "a", "t", "i", "m", "g", "e", "h", "p", "x", "A"}

\* s.startswith(p)
StartsWith(s, p) == Len(s) >= Len(p) /\ SubSeq(s, 1, Len(p)) = p

\* sub in s
ContainsSub(s, sub) ==
    \E i \in 1..Len(s) : i + Len(sub) - 1 <= Len(s) /\ SubSeq(s, i, i + Len(sub) - 1) = sub

\* The first index of character ch in s, 0 when there is none.
RECURSIVE IndexFrom(_, _, _)
IndexFrom(s, ch, i) ==
    IF i > Len(s) THEN 0
    ELSE IF s[i] = ch THEN i
    ELSE IndexFrom(s, ch, i + 1)

\* s.split(ch): every segment between separators.
RECURSIVE Split(_, _)
Split(s, ch) ==
    LET i == IndexFrom(s, ch, 1)
    IN  IF i = 0 THEN <<s>>
        ELSE <<SubSeq(s, 1, i - 1)>> \o Split(SubSeq(s, i + 1, Len(s)), ch)

\* url.split(",")[1] if "," in url else url
DataUriPayload(s) ==
    IF IndexFrom(s, ",", 1) # 0 THEN Split(s, ",")[2] ELSE s

\* image_obj[:100]
ProbeLen == 100

Take(s, n) == SubSeq(s, 1, IF Len(s) < n THEN Len(s) ELSE n)

\* base64.b64decode(s) does not raise: characters outside the alphabet are
\* discarded, and what is left must come in whole groups of four (the model's
\* strings hold no "=" padding).
B64DecodeOk(s) ==
    Cardinality({i \in DOMAIN s : s[i] \in Base64Alphabet}) % 4 = 0

(***************************************************************************)
(* JSON values: every value is a record tagged by k.                       *)
(***************************************************************************)

Absent == [k |-> "absent"]       \* the key is not in the dict
JNull == [k |-> "null"]          \* None
JNum == [k |-> "num"]            \* a number
JStr(s) == [k |-> "str", s |-> s]
JList(xs) == [k |-> "list", xs |-> xs]

IsStr(v) == v.k = "str"
IsDict(v) == v.k = "dict"
IsList(v) == v.k = "list"
Has(v) == v.k # "absent"         \* "key" in d

(***************************************************************************)
(* GeminiService.generate_doodle: the result dict and the normalisation    *)
(* of the upstream body.  A key the dict does not hold is Absent.          *)
(***************************************************************************)

\* A formatted message: its literal text and what is interpolated into it.
Msg(text, args) == [k |-> "str", text |-> text, args |-> args]

NoImageFound == Msg("No image found in response", <<>>)
TimeoutMsg == Msg("Request timeout - generation took too long", <<>>)

SuccessBase64(v, gt) ==
    [success |-> TRUE, image_url |-> Absent, image_base64 |-> v,
     error |-> Absent, generation_time |-> gt]

SuccessUrl(v, gt) ==
    [success |-> TRUE, image_url |-> v, image_base64 |-> Absent,
     error |-> Absent, generation_time |-> gt]

Failure(e, gt) ==
    [success |-> FALSE, image_url |-> Absent, image_base64 |-> Absent,
     error |-> e, generation_time |-> gt]

\* message = choice.get("message", {})
EmptyMessage == [k |-> "dict", images |-> Absent, content |-> Absent]

\* Lines 117-125: the string an images[0] dict carries, or None.
ImageUrlOf(image_url_obj) ==
    IF IsDict(image_url_obj) /\ Has(image_url_obj.url) THEN image_url_obj.url
    ELSE IF IsStr(image_url_obj) THEN image_url_obj
    ELSE JNull

\* Lines 112-161: <<result>> when message["images"][0] decides, <<>> otherwise.
ImagesMatch(message, gt) ==
    IF Has(message.images) /\ Len(message.images.xs) > 0
    THEN LET image_obj == message.images.xs[1]
         IN  IF IsDict(image_obj) /\ Has(image_obj.image_url)
             THEN LET image_url == ImageUrlOf(image_obj.image_url)
                  IN  IF IsStr(image_url)
                      THEN IF StartsWith(image_url.s, DataPrefix)
                           THEN <<SuccessBase64(JStr(DataUriPayload(image_url.s)), gt)>>
                           ELSE IF StartsWith(image_url.s, HttpPrefix)
                                THEN <<SuccessUrl(image_url, gt)>>
                                ELSE <<>>
                      ELSE <<>>
             ELSE IF IsStr(image_obj)
                  THEN IF StartsWith(image_obj.s, DataPrefix)
                       THEN <<SuccessBase64(JStr(DataUriPayload(image_obj.s)), gt)>>
                       ELSE IF B64DecodeOk(Take(image_obj.s, ProbeLen))
                            THEN <<SuccessBase64(image_obj, gt)>>
                            ELSE <<>>
                  ELSE <<>>
    ELSE <<>>

\* "image" in str(item): the dict's printed form shows its values.
ReprHasImage(item) ==
    \/ IsStr(item.type) /\ ContainsSub(item.type.s, ImageWord)
    \/ IsStr(item.data) /\ ContainsSub(item.data.s, ImageWord)
    \/ IsStr(item.url) /\ ContainsSub(item.url.s, ImageWord)

\* Line 184: item.get("type") == "image" or "image" in str(item)
Qualifies(item) ==
    \/ item.type = JStr(ImageWord)
    \/ ReprHasImage(item)

\* Lines 182-196: the scan of a content list, in element order.
RECURSIVE ScanItems(_, _)
ScanItems(xs, gt) ==
    IF xs = <<>> THEN <<>>
    ELSE LET item == Head(xs)
         IN  IF IsDict(item) /\ Qualifies(item) /\ Has(item.data)
             THEN <<SuccessBase64(item.data, gt)>>
             ELSE IF IsDict(item) /\ Qualifies(item) /\ Has(item.url)
                  THEN <<SuccessUrl(item.url, gt)>>
                  ELSE ScanItems(Tail(xs), gt)

\* Lines 164-196: <<result>> when message.get("content") decides.
ContentMatch(message, gt) ==
    LET content == IF Has(message.content) THEN message.content ELSE JNull
    IN  IF IsStr(content)
        THEN IF StartsWith(content.s, DataPrefix)
             THEN <<SuccessBase64(JStr(DataUriPayload(content.s)), gt)>>
             ELSE IF StartsWith(content.s, HttpPrefix)
                  THEN <<SuccessUrl(content, gt)>>
                  ELSE <<>>
        ELSE IF IsList(content)
             THEN ScanItems(content.xs, gt)
             ELSE <<>>

\* The message the normalisation reads: choices[0].message, or {}.
MessageOf(body) ==
    LET choice == body.choices.xs[1]
    IN  IF Has(choice.message) THEN choice.message ELSE EmptyMessage

\* Line 107: "choices" in result and len(result["choices"]) > 0
HasChoice(body) == Has(body.choices) /\ Len(body.choices.xs) > 0

\* Variant: message.content is looked at before message.images.
NormaliseContentFirst(body, gt) ==
    IF HasChoice(body)
    THEN LET message == MessageOf(body)
             im == ImagesMatch(message, gt)
             cm == ContentMatch(message, gt)
         IN  IF cm # <<>> THEN cm[1]
             ELSE IF im # <<>> THEN im[1]
             ELSE Failure(NoImageFound, gt)
    ELSE Failure(NoImageFound, gt)

\* Lines 107-202: the normalisation of a parsed JSON object.
Normalise(body, gt) ==
    IF HasChoice(body)
    THEN LET message == MessageOf(body)
             im == ImagesMatch(message, gt)
             cm == ContentMatch(message, gt)
         IN  IF im # <<>> THEN im[1]
             ELSE IF cm # <<>> THEN cm[1]
             ELSE Failure(NoImageFound, gt)
    ELSE Failure(NoImageFound, gt)

\* The status the service takes for success.
HTTP_OK == 200

\* Line 90: response.status_code != 200
IsErrorStatus(status) == status # HTTP_OK

\* Lines 91-96: error.message of a JSON error body, else the body's text.
ErrorDetail(body) ==
    IF body.k = "json" /\ IsDict(body.error) /\ Has(body.error.message)
    THEN body.error.message
    ELSE [k |-> "text", of |-> body]

\* response.json() returns a value.
Parseable(body) == body.k \in {"json", "num"}

\* Lines 104-202: response.json() and the normalisation; json() raises on a
\* body that is not JSON, and "choices" in result raises on a number.
ParseAndNormalise(body, gt) ==
    IF body.k = "text" THEN Failure(Msg("Unexpected error: ", <<"JSONDecodeError">>), gt)
    ELSE IF body.k = "num" THEN Failure(Msg("Unexpected error: ", <<"TypeError">>), gt)
    ELSE Normalise(body, gt)

\* Lines 56-215: the result for what the POST came to, gt seconds after start.
GenerateDoodle(o, gt) ==
    IF o.k = "timeout" THEN Failure(TimeoutMsg, gt)
    ELSE IF o.k = "error" THEN Failure(Msg("Unexpected error: ", <<"ConnectError">>), gt)
    ELSE IF IsErrorStatus(o.status)
         THEN Failure(Msg("API Error (): ", <<o.status, ErrorDetail(o.body)>>), gt)
         ELSE ParseAndNormalise(o.body, gt)

(***************************************************************************)
(* What the upstream may answer: the inputs of generate_doodle.            *)
(***************************************************************************)

\* The longest content list.
MaxItems == 2

Tails == UNION {[1..n -> TailChars] : n \in 0..MaxTail}

Strings == {p \o s : p \in {<<>>, DataPrefix, HttpPrefix}, s \in Tails}

Obj(image_url) == [k |-> "dict", image_url |-> image_url]
UrlObj(url) == [k |-> "dict", url |-> url]
Item(type, data, url) == [k |-> "dict", type |-> type, data |-> data, url |-> url]

FourA == <<"A", "A", "A", "A">>

\* Every shape of message["images"][0] the code tells apart.
ImageObjs ==
    {JStr(s) : s \in Strings}
        \cup {Obj(JStr(s)) : s \in Strings}
        \cup {Obj(UrlObj(JStr(s))) : s \in Strings}
        \cup {JNull, JNum, Obj(Absent), Obj(JNull), Obj(JNum),
              Obj(UrlObj(Absent)), Obj(UrlObj(JNull))}

AllImages == {Absent, JList(<<>>)} \cup {JList(<<x>>) : x \in ImageObjs}

SampleImages ==
    {Absent, JList(<<>>),
     JList(<<Obj(UrlObj(JStr(FourA)))>>),
     JList(<<Obj(UrlObj(JStr(DataPrefix \o <<",", "A", ",", "A">>)))>>),
     JList(<<Obj(JStr(HttpPrefix \o <<"A">>))>>),
     JList(<<JStr(FourA)>>),
     JList(<<JStr(<<"A">>)>>)}

Items ==
    {Item(JStr(ImageWord), d, u) :
        d \in {Absent, JNull, JStr(FourA)},
        u \in {Absent, JNull, JStr(HttpPrefix \o <<"A">>)}}
        \cup {Item(JStr(TextWord), Absent, Absent),
              Item(JStr(TextWord), JStr(FourA), Absent),
              Item(Absent, JStr(DataPrefix \o <<",", "A">>), Absent),
              Item(JStr(ImageWord), JNum, Absent),
              JStr(ImageWord)}

ItemLists == UNION {[1..n -> Items] : n \in 0..MaxItems}

AllContents ==
    {Absent, JNull, JNum} \cup {JStr(s) : s \in Strings}
        \cup {JList(xs) : xs \in ItemLists}

SampleContents ==
    {Absent,
     JStr(DataPrefix \o <<",", "A">>),
     JStr(HttpPrefix),
     JStr(FourA),
     JList(<<Item(JStr(ImageWord), JStr(FourA), Absent)>>),
     JList(<<Item(JStr(TextWord), Absent, Absent)>>)}

Message(images, content) == [k |-> "dict", images |-> images, content |-> content]

Messages ==
    {Message(i, c) : i \in AllImages, c \in SampleContents}
        \cup {Message(i, c) : i \in SampleImages, c \in AllContents}

Json(choices, error) == [k |-> "json", choices |-> choices, error |-> error]
Choice(message) == [k |-> "dict", message |-> message]

\* A body that is no JSON, and a body that is a JSON number.
OddBodies == {[k |-> "text"], [k |-> "num"]}

ImageBodies(messages) ==
    {Json(JList(<<Choice(m)>>), Absent) : m \in messages}

AllBodies ==
    OddBodies
        \cup {Json(Absent, Absent), Json(JList(<<>>), Absent),
              Json(JList(<<Choice(Absent)>>), Absent)}
        \cup ImageBodies(Messages)

\* A few bodies, one for each way generate_doodle can end.
SampleBodies ==
    OddBodies
        \cup {Json(JList(<<>>), Absent)}
        \cup ImageBodies({Message(JList(<<Obj(UrlObj(JStr(DataPrefix \o <<",", "A">>)))>>), Absent),
                          Message(Absent, JStr(HttpPrefix)),
                          Message(Absent, JList(<<Item(JStr(ImageWord), JNum, Absent)>>)),
                          Message(Absent, JStr(FourA))})

\* Bodies of an upstream error.
ErrorBodies ==
    {[k |-> "text"],
     Json(Absent, Absent),
     Json(Absent, JStr(<<"x">>)),
     Json(Absent, [k |-> "dict", message |-> Absent]),
     Json(Absent, [k |-> "dict", message |-> JStr(<<"x">>)])}

Response(status, body) == [k |-> "response", status |-> status, body |-> body]

\* The POST raises httpx.TimeoutException, or another exception.
Raised == {[k |-> "timeout"], [k |-> "error"]}

AllOutcomes ==
    Raised
        \cup {Response(st, b) : st \in {301, 404, 500}, b \in ErrorBodies}
        \cup {Response(st, b) : st \in {201, 204, 299}, b \in SampleBodies}
        \cup {Response(HTTP_OK, b) : b \in AllBodies}

SampleOutcomes ==
    Raised
        \cup {Response(500, b) : b \in {[k |-> "text"]}}
        \cup {Response(HTTP_OK, b) : b \in SampleBodies}

(***************************************************************************)
(* The handler's reply (main.py, generate_doodle).                         *)
(***************************************************************************)

NoReply == [k |-> "none"]

\* Lines 123-126: HTTPException(status_code=429, ...)
TooManyRequests ==
    [k |-> "http_error", status |-> 429,
     detail |-> Msg("Rate limit exceeded. Maximum  requests per hour.",
                    <<rate_limit_requests>>)]

\* A DoodleResponse, sent with status 200.
Doodle(success, image_url, image_base64, generation_time, error) ==
    [k |-> "doodle", status |-> 200, success |-> success, image_url |-> image_url,
     image_base64 |-> image_base64, generation_time |-> generation_time,
     error |-> error]

\* dict.get(key): None for a key the dict does not hold.
Get(v) == IF Has(v) THEN v ELSE JNull

\* DoodleResponse's Optional[str] fields accept a string or None.
OptionalStr(v) == v.k \in {"str", "null"}

\* Variant: no except clause; the exception leaves the handler.
Propagate(e) == [k |-> "fault", exception |-> e]

\* Lines 151-157: except Exception -> a structured "Server error" reply.
OnException(e) ==
    Doodle(FALSE, JNull, JNull, 0, Msg("Server error: ", <<e>>))

\* Lines 135-157: the reply built from the service's result.
HandlerReply(result) ==
    IF result.success
    THEN IF OptionalStr(Get(result.image_url)) /\ OptionalStr(Get(result.image_base64))
         THEN Doodle(TRUE, Get(result.image_url), Get(result.image_base64),
                     result.generation_time, JNull)
         ELSE OnException("ValidationError")
    ELSE Doodle(FALSE, JNull, JNull, result.generation_time,
                IF Has(result.error) THEN result.error
                ELSE Msg("Unknown error occurred", <<>>))

\* Variant: the handler ignores what check_rate_limit returned.
RejectsNever(ret) == FALSE

\* Line 122: if not check_rate_limit(client_ip)
Rejects(ret) == ret = "false"

(***************************************************************************)
(* The event loop.  The handler is a coroutine (async def): once it runs   *)
(* it keeps the loop until it awaits the POST or ends.                     *)
(***************************************************************************)

\* Variant: a plain def handler, run by a pool of threads.
LoopFreeThreaded(s) == TRUE

\* Lines 107-108: slot s may run when no other coroutine holds the loop.
LoopFree(s) == loop = NoSlot \/ loop = s

NoResponse == [k |-> "none"]
NoResult == [k |-> "none"]

IdleReq ==
    [pc |-> "idle", client_ip |-> "", current_time |-> 0, ret |-> "none",
     before |-> <<>>, service |-> FALSE, posted |-> FALSE, start_time |-> 0,
     response |-> NoResponse, result |-> NoResult, reply |-> NoReply]

\* The positions inside check_rate_limit.
CheckPcs == {"l58", "l60", "l68", "l71"}

\* The timestamps stored for client c ([] when it has no key yet).
Stored(c) ==
    IF c \in DOMAIN rate_limit_storage THEN rate_limit_storage[c] ELSE <<>>

\* The storage with client c's list replaced by s.
Store(c, s) ==
    [d \in DOMAIN rate_limit_storage \cup {c} |->
        IF d = c THEN s ELSE rate_limit_storage[d]]

Init ==
    /\ now = 0
    /\ rate_limit_storage = [c \in {} |-> <<>>]
    /\ loop = NoSlot
    /\ req = [s \in Slots |-> IdleReq]
    /\ calls = [c \in Clients |-> <<>>]

\* The clock advances.
Tick ==
    /\ now < MaxTime
    /\ now' = now + 1
    /\ UNCHANGED <<rate_limit_storage, loop, req, calls>>

\* check_rate_limit calls started so far.
RECURSIVE Finished(_)
Finished(cs) ==
    IF cs = {} THEN 0
    ELSE LET c == CHOOSE x \in cs : TRUE
         IN  Len(calls[c]) + Finished(cs \ {c})

Started == Finished(Clients) + Cardinality({s \in Slots : req[s].pc \in CheckPcs})

\* Line 120: a request of client c arrives and its handler starts running.
Start(s, c) ==
    /\ req[s].pc = "idle"
    /\ LoopFree(s)
    /\ Started < MaxCalls
    /\ loop' = s
    /\ req' = [req EXCEPT ![s] = [IdleReq EXCEPT !.pc = "l58", !.client_ip = c]]
    /\ UNCHANGED <<now, rate_limit_storage, calls>>

\* Line 58: current_time = time.time()
ReadClock(s) ==
    /\ req[s].pc = "l58"
    /\ LoopFree(s)
    /\ req' = [req EXCEPT ![s].pc = "l60", ![s].current_time = now]
    /\ UNCHANGED <<now, rate_limit_storage, loop, calls>>

\* Lines 60-66: create the key if missing, then prune and store the list.
Prune(s) ==
    /\ req[s].pc = "l60"
    /\ LoopFree(s)
    /\ rate_limit_storage' =
           Store(req[s].client_ip,
                 SelectTimes(Stored(req[s].client_ip), req[s].current_time))
    /\ req' = [req EXCEPT ![s].pc = "l68", ![s].before = Stored(req[s].client_ip)]
    /\ UNCHANGED <<now, loop, calls>>

\* The history with the call slot record r has finished: the time it read,
\* what it returned, the list it found and the list it left stored.
Logged(r, ok, stored) ==
    [calls EXCEPT ![r.client_ip] =
        Append(@, [t |-> r.current_time, ok |-> ok,
                   before |-> r.before, stored |-> stored])]

\* Lines 68-69: the limit is reached: return False.
CheckLimit(s) ==
    /\ req[s].pc = "l68"
    /\ LoopFree(s)
    /\ IF LimitReached(Stored(req[s].client_ip))
       THEN /\ req' = [req EXCEPT ![s].pc = "l122", ![s].ret = "false",
                                   ![s].current_time = 0, ![s].before = <<>>]
            /\ calls' = Logged(req[s], FALSE, Stored(req[s].client_ip))
       ELSE /\ req' = [req EXCEPT ![s].pc = "l71"]
            /\ UNCHANGED calls
    /\ UNCHANGED <<now, rate_limit_storage, loop>>

\* Lines 71-72: append current_time and return True.
Record(s) ==
    /\ req[s].pc = "l71"
    /\ LoopFree(s)
    /\ LET stored == Append(Stored(req[s].client_ip), req[s].current_time)
       IN  /\ rate_limit_storage' = Store(req[s].client_ip, stored)
           /\ calls' = Logged(req[s], TRUE, stored)
    /\ req' = [req EXCEPT ![s].pc = "l122", ![s].ret = "true",
                           ![s].current_time = 0, ![s].before = <<>>]
    /\ UNCHANGED <<now, loop>>

\* Lines 122-126: a rejected request is answered 429 and the handler ends.
Branch(s) ==
    /\ req[s].pc = "l122"
    /\ LoopFree(s)
    /\ IF Rejects(req[s].ret)
       THEN /\ req' = [req EXCEPT ![s].pc = "sent", ![s].client_ip = "",
                                   ![s].reply = TooManyRequests]
            /\ loop' = NoSlot
       ELSE /\ req' = [req EXCEPT ![s].pc = "l129", ![s].client_ip = ""]
            /\ UNCHANGED loop
    /\ UNCHANGED <<now, rate_limit_storage, calls>>

\* Lines 129-130, 56: GeminiService() is created, generate_doodle starts.
EnterService(s) ==
    /\ req[s].pc = "l129"
    /\ LoopFree(s)
    /\ req' = [req EXCEPT ![s].pc = "l82", ![s].service = TRUE, ![s].start_time = now]
    /\ UNCHANGED <<now, rate_limit_storage, loop, calls>>

\* Lines 82-86: the POST is issued and the coroutine awaits the response.
Post(s) ==
    /\ req[s].pc = "l82"
    /\ LoopFree(s)
    /\ req' = [req EXCEPT ![s].pc = "awaiting", ![s].posted = TRUE]
    /\ loop' = NoSlot
    /\ UNCHANGED <<now, rate_limit_storage, calls>>

\* Lines 88-215, 135-157: the POST comes to one of outcomes; the coroutine
\* resumes and runs to its return.
Respond(s, outcomes) ==
    /\ req[s].pc = "awaiting"
    /\ LoopFree(s)
    /\ \E o \in outcomes :
           LET result == GenerateDoodle(o, now - req[s].start_time)
           IN  req' = [req EXCEPT ![s].pc = "sent", ![s].response = o,
                                  ![s].result = result, ![s].reply = HandlerReply(result)]
    /\ UNCHANGED <<now, rate_limit_storage, loop, calls>>

\* The reply is on the wire; the slot serves the next request.
Finish(s) ==
    /\ req[s].pc = "sent"
    /\ req' = [req EXCEPT ![s] = IdleReq]
    /\ UNCHANGED <<now, rate_limit_storage, loop, calls>>

(***************************************************************************)
(* Specifications.                                                         *)
(***************************************************************************)

\* The steps of slot s's coroutine between its start and its await.
Step(s) ==
    \/ ReadClock(s)
    \/ Prune(s)
    \/ CheckLimit(s)
    \/ Record(s)
    \/ Branch(s)
    \/ EnterService(s)
    \/ Post(s)

\* The server: requests of any client in any slot, served concurrently.
Next ==
    \/ Tick
    \/ \E s \in Slots, c \in Clients : Start(s, c)
    \/ \E s \in Slots : Step(s)
    \/ \E s \in Slots : Respond(s, {[k |-> "timeout"]})
    \/ \E s \in Slots : Finish(s)

Spec == Init /\ [][Next]_vars

\* One request at a time: check_rate_limit called at non-decreasing times.
NextSeq ==
    \/ Tick
    \/ \E c \in Clients : Start(1, c)
    \/ Step(1)
    \/ Respond(1, SampleOutcomes)
    \/ Finish(1)

SpecSeq == Init /\ [][NextSeq]_vars

\* One request, answered by every upstream outcome of the model.
NextGen ==
    \/ \E c \in Clients : Start(1, c)
    \/ Step(1)
    \/ Respond(1, AllOutcomes)

SpecGen == Init /\ [][NextGen]_vars

(***************************************************************************)
(* Properties of the rate limiter (SpecSeq, Spec).                         *)
(***************************************************************************)

\* The earliest timestamp of a non-empty list.
Earliest(s) == CHOOSE x \in Range(s) : \A y \in Range(s) : x <= y

\* C1: every client's stored list, and the list every check left behind,
\* holds at most rate_limit_requests timestamps, and every stored timestamp
\* is the time of a call of that client that returned True.
C1_WindowHoldsAdmitted ==
    /\ \A c \in DOMAIN rate_limit_storage :
          /\ Len(rate_limit_storage[c]) <= rate_limit_requests
          /\ \A i \in DOMAIN rate_limit_storage[c] :
                \E j \in DOMAIN calls[c] :
                    /\ calls[c][j].ok
                    /\ calls[c][j].t = rate_limit_storage[c][i]
    /\ \A c \in Clients : \A j \in DOMAIN calls[c] :
          Len(calls[c][j].stored) <= rate_limit_requests

\* A check found the window full, rejected, and left the full list stored.
C1_Witness ==
    \E c \in Clients : \E j \in DOMAIN calls[c] :
        /\ ~calls[c][j].ok
        /\ Len(calls[c][j].stored) = rate_limit_requests
        /\ rate_limit_storage[c] = calls[c][j].stored

\* C2: when a client's call number rate_limit_requests + 1 comes less than
\* rate_limit_period after its first call, the first rate_limit_requests
\* calls returned True, that call returned False, and the list it left
\* stored holds the times of the first calls only.
C2_NextCallRejected ==
    \A c \in Clients :
        LET cs == calls[c]
            n == rate_limit_requests
        IN  (Len(cs) >= n + 1 /\ cs[n + 1].t - cs[1].t < rate_limit_period)
                => /\ \A i \in 1..n : cs[i].ok
                   /\ ~cs[n + 1].ok
                   /\ cs[n + 1].stored = [i \in 1..n |-> cs[i].t]

\* A client made its calls at different times inside one window.
C2_Witness ==
    \E c \in Clients :
        LET cs == calls[c]
            n == rate_limit_requests
        IN  /\ Len(cs) >= n + 1
            /\ cs[n + 1].t - cs[1].t < rate_limit_period
            /\ cs[n + 1].t > cs[1].t

\* C3: a call that finds the client's list full, made rate_limit_period or
\* more after the earliest stored timestamp, returns True.
C3_AdmittedAfterWindow ==
    \A c \in Clients : \A j \in DOMAIN calls[c] :
        (/\ Len(calls[c][j].before) = rate_limit_requests
         /\ calls[c][j].t - Earliest(calls[c][j].before) >= rate_limit_period)
            => calls[c][j].ok

\* A call exactly rate_limit_period after the earliest timestamp of a full
\* list, with a rejected call of the same client in between.
C3_Witness ==
    \E c \in Clients : \E j \in DOMAIN calls[c] :
        /\ Len(calls[c][j].before) = rate_limit_requests
        /\ calls[c][j].t - Earliest(calls[c][j].before) = rate_limit_period
        /\ calls[c][j].ok
        /\ \E i \in 1..(j - 1) :
              /\ ~calls[c][i].ok
              /\ calls[c][i].before = calls[c][j].before

\* C4: no two requests are inside check_rate_limit at once, and for every
\* client the calls that returned True with a timestamp in any trailing
\* window of rate_limit_period seconds number at most rate_limit_requests.
C4_NoLostUpdate ==
    /\ Cardinality({s \in Slots : req[s].pc \in CheckPcs}) <= 1
    /\ \A c \in Clients, end \in 0..MaxTime :
          Cardinality({j \in DOMAIN calls[c] :
                          /\ calls[c][j].ok
                          /\ calls[c][j].t <= end
                          /\ end - calls[c][j].t < rate_limit_period})
              <= rate_limit_requests

\* While one request awaits its POST, another one is rejected.
C4_Witness ==
    \E s1, s2 \in Slots :
        /\ req[s1].pc = "awaiting"
        /\ req[s2].pc = "l122"
        /\ req[s2].ret = "false"

(***************************************************************************)
(* Properties of the handler.                                              *)
(***************************************************************************)

\* C5: a request check_rate_limit rejected creates no GeminiService and
\* issues no POST, and the reply it sends is the 429; a service is created
\* and a POST issued only for a request check_rate_limit admitted.
C5_RejectedBeforeGeneration ==
    \A s \in Slots :
        /\ req[s].ret = "false" =>
              /\ ~req[s].service
              /\ ~req[s].posted
              /\ req[s].pc \in {"l122", "sent"}
              /\ req[s].pc = "sent" => req[s].reply = TooManyRequests
        /\ (req[s].service \/ req[s].posted) => req[s].ret = "true"
        /\ req[s].reply.k = "http_error" => req[s].ret = "false"

\* A rejected request has been answered 429 while another one was posted.
C5_Witness ==
    \E s1, s2 \in Slots :
        /\ req[s1].ret = "false"
        /\ req[s1].pc = "sent"
        /\ req[s1].reply.status = 429
        /\ req[s2].posted

\* The message is not the empty string.
NonEmpty(e) == e.k = "str" /\ e.text # ""

\* The errors of the generation path: the POST raised, the status is an
\* error status, the body is no JSON object, or it holds no image.
GenerationError(o) ==
    \/ o.k \in {"timeout", "error"}
    \/ o.k = "response" /\ (o.status < 200 \/ o.status > 299)
    \/ o.k = "response" /\ o.body.k # "json"
    \/ o.k = "response" /\ o.body.k = "json" /\ ~HasChoice(o.body)
    \/ /\ o.k = "response"
       /\ o.body.k = "json"
       /\ HasChoice(o.body)
       /\ ImagesMatch(MessageOf(o.body), 0) = <<>>
       /\ ContentMatch(MessageOf(o.body), 0) = <<>>

\* C9: every admitted request ends in a DoodleResponse with
\* generation_time >= 0, never in an uncaught exception, and after an error
\* of the generation path the response has success false and a non-empty
\* error.
C9_StructuredFailure ==
    \A s \in Slots :
        (req[s].pc = "sent" /\ req[s].ret = "true") =>
            /\ req[s].reply.k = "doodle"
            /\ req[s].reply.generation_time >= 0
            /\ GenerationError(req[s].response) =>
                  /\ ~req[s].reply.success
                  /\ NonEmpty(req[s].reply.error)

\* The handler caught an exception of its own after the clock had advanced.
C9_Witness ==
    \E s \in Slots :
        /\ req[s].pc = "sent"
        /\ req[s].ret = "true"
        /\ req[s].result.success
        /\ ~req[s].reply.success
        /\ now > req[s].start_time

(***************************************************************************)
(* Properties of generate_doodle (SpecGen).                                *)
(***************************************************************************)

\* Slot s has sent its reply to a response with status 200 whose body is a
\* JSON object with a first choice.
Normalised(s) ==
    /\ req[s].pc = "sent"
    /\ req[s].response.k = "response"
    /\ req[s].response.status = HTTP_OK
    /\ req[s].response.body.k = "json"
    /\ HasChoice(req[s].response.body)

\* images[0] decides: a data URI or an http URL under image_url, or a string
\* that is a data URI or passes the base64 probe.
ImagesDecide(m) ==
    /\ Has(m.images)
    /\ Len(m.images.xs) > 0
    /\ LET x == m.images.xs[1]
       IN  \/ /\ IsDict(x)
              /\ Has(x.image_url)
              /\ IsStr(ImageUrlOf(x.image_url))
              /\ \/ StartsWith(ImageUrlOf(x.image_url).s, DataPrefix)
                 \/ StartsWith(ImageUrlOf(x.image_url).s, HttpPrefix)
           \/ /\ IsStr(x)
              /\ \/ StartsWith(x.s, DataPrefix)
                 \/ B64DecodeOk(Take(x.s, ProbeLen))

\* The positions of a content list that qualify and hold data or url.
Deciding(xs) ==
    {i \in DOMAIN xs :
        IsDict(xs[i]) /\ Qualifies(xs[i]) /\ (Has(xs[i].data) \/ Has(xs[i].url))}

\* content decides: a data URI, an http URL, or a list with a deciding element.
ContentDecides(m) ==
    \/ IsStr(m.content) /\ StartsWith(m.content.s, DataPrefix)
    \/ IsStr(m.content) /\ StartsWith(m.content.s, HttpPrefix)
    \/ IsList(m.content) /\ Deciding(m.content.xs) # {}

\* The data URI that reaches the comma split, as <<s>>; <<>> when none does.
DataUriReached(m) ==
    LET x == IF Has(m.images) /\ Len(m.images.xs) > 0 THEN m.images.xs[1] ELSE JNull
        u == IF IsDict(x) /\ Has(x.image_url) THEN ImageUrlOf(x.image_url) ELSE x
    IN  IF IsStr(u) /\ StartsWith(u.s, DataPrefix) THEN <<u.s>>
        ELSE IF ~ImagesDecide(m) /\ IsStr(m.content) /\ StartsWith(m.content.s, DataPrefix)
             THEN <<m.content.s>>
             ELSE <<>>

\* The substring after the first comma, or all of s without a comma.
AfterFirstComma(s) ==
    LET i == IndexFrom(s, ",", 1)
    IN  IF i = 0 THEN s ELSE SubSeq(s, i + 1, Len(s))

\* C6: for every data URI that reaches the comma split, image_base64 is all
\* of the string after its first comma, later commas included, or the whole
\* string when it has no comma.
C6_WholePayloadAfterFirstComma ==
    \A s \in Slots :
        Normalised(s) =>
            LET u == DataUriReached(MessageOf(req[s].response.body))
            IN  u # <<>> =>
                    /\ req[s].result.success
                    /\ req[s].result.image_base64 = JStr(AfterFirstComma(u[1]))

\* The status is one of 200..299.
Is2xx(status) == status >= 200 /\ status <= 299

\* C7: a status outside 200..299 gives a failure, and every status in
\* 200..299 with a body that parses as JSON gives the normalisation's result
\* for that body.
C7_DispatchOnStatusClass ==
    \A s \in Slots :
        (req[s].pc = "sent" /\ req[s].response.k = "response") =>
            LET o == req[s].response
                r == req[s].result
            IN  /\ ~Is2xx(o.status) => ~r.success
                /\ (Is2xx(o.status) /\ Parseable(o.body))
                      => r = ParseAndNormalise(o.body, r.generation_time)

\* The field holds a value other than None.
Populated(v) == v.k \notin {"absent", "null"}

\* C8: a result with success true, and the DoodleResponse made from it,
\* holds a value in exactly one of image_url and image_base64.
C8_ExactlyOneImage ==
    \A s \in Slots :
        (req[s].pc = "sent" /\ req[s].response.k # "none") =>
            /\ req[s].result.success =>
                  Populated(req[s].result.image_url) # Populated(req[s].result.image_base64)
            /\ req[s].reply.success =>
                  Populated(req[s].reply.image_url) # Populated(req[s].reply.image_base64)

\* The body of o with its message's content, or its images, taken away.
WithoutContent(body) ==
    Json(JList(<<Choice(Message(MessageOf(body).images, Absent))>>), Absent)

WithoutImages(body) ==
    Json(JList(<<Choice(Message(Absent, MessageOf(body).content))>>), Absent)

\* What the first deciding element of a content list gives.
FirstDeciding(xs, gt) ==
    LET i == CHOOSE i \in Deciding(xs) : \A j \in Deciding(xs) : i <= j
    IN  IF Has(xs[i].data) THEN SuccessBase64(xs[i].data, gt)
        ELSE SuccessUrl(xs[i].url, gt)

====
